---- MODULE Spec2Model ----
(***************************************************************************)
(* Upload pipeline of the MediQuest patient module:                        *)
(*   src/App.tsx                   handleFileUpload (orchestrator)         *)
(*   src/services/geminiService.ts processMedicalImage,                    *)
(*                                 analyzeMedicalDocument                  *)
(*   src/services/firebaseService.ts addPatientReport, syncPatientData     *)
(*   src/components/UploadReport.tsx the upload control (disabled flag)    *)
(*                                                                         *)
(* JavaScript values are tagged records: [t |-> "undefined"],              *)
(* [t |-> "null"], [t |-> "string", v |-> <<tokens>>],                      *)
(* [t |-> "number", v |-> n], [t |-> "array", v |-> <<...>>],               *)
(* [t |-> "object", f |-> [key |-> value]].  A string is a sequence of     *)
(* tokens; a mime type is spelled character by character, a block of       *)
(* base64 data is one token whose length TokLen gives.                     *)
(***************************************************************************)
EXTENDS Integers, Sequences, FiniteSets, TLC

\* ------------------------------------------------------------------ bounds
\* upload slots (closures of handleFileUpload that can exist at once)
MaxSlots == 2
\* records the files list / the store document may hold
MaxFiles == 1
\* largest reading of Date.now()
MaxClock == 1
\* longest findings list shown on a card
MaxFindings == 3

Slots == 1..MaxSlots

\* --------------------------------------------------------------- JS values
Undefined == [t |-> "undefined"]
Null == [t |-> "null"]
Str(s) == [t |-> "string", v |-> s]
Num(n) == [t |-> "number", v |-> n]
Arr(s) == [t |-> "array", v |-> s]
Obj(f) == [t |-> "object", f |-> f]

\* JavaScript truthiness of a value
Truthy(x) ==
  CASE x.t = "undefined" -> FALSE
    [] x.t = "null" -> FALSE
    [] x.t = "string" -> x.v # <<>>
    [] x.t = "number" -> x.v # 0
    [] OTHER -> TRUE

\* completion of a function body: a returned value or a thrown error
Return(x) == [thrown |-> FALSE, value |-> x]
Throw == [thrown |-> TRUE, value |-> Undefined]

\* ----------------------------------------------------------------- strings
\* number of characters of one token
TokLen(tok) ==
  CASE tok = "data:" -> 5
    [] tok = ";base64" -> 7
    [] tok = "data:image/png;base64" -> 21
    [] tok = "application/octet-stream" -> 24
    [] tok = "o" -> 4
    [] tok = "O" -> 800004
    [] tok = "e" -> 4
    [] OTHER -> 1

RECURSIVE StrLen(_)
\* String.prototype.length of a token sequence
StrLen(s) == IF s = <<>> THEN 0 ELSE TokLen(Head(s)) + StrLen(Tail(s))

\* startsWith that only compares lengths
StartsWithLengthOnly(s, prefix) == Len(s) >= Len(prefix)

\* String.prototype.startsWith
StartsWith(s, prefix) ==
  /\ Len(s) >= Len(prefix)
  /\ SubSeq(s, 1, Len(prefix)) = prefix

\* position of the first occurrence of tok in s, 0 when there is none
IndexOf(s, tok) ==
  IF \E i \in 1..Len(s) : s[i] = tok
    THEN CHOOSE i \in 1..Len(s) : s[i] = tok /\ \A j \in 1..(i - 1) : s[j] # tok
    ELSE 0

\* s.split(',')[1]: what lies between the first and the second comma
SplitComma1(s) ==
  LET i == IndexOf(s, ",") IN
  IF i = 0 THEN Undefined
  ELSE LET rest == SubSeq(s, i + 1, Len(s))
           j == IndexOf(rest, ",")
       IN Str(IF j = 0 THEN rest ELSE SubSeq(rest, 1, j - 1))

ImagePrefix == <<"i", "m", "a", "g", "e", "/">>
MimePng == <<"i", "m", "a", "g", "e", "/", "p", "n", "g">>
MimePdf == <<"a", "p", "p", "l", "i", "c", "a", "t", "i", "o", "n", "/", "p", "d", "f">>
MimeNone == <<>>

\* ------------------------------------------------------------------ inputs
\* the File objects a user can pick: type and content
PickedFiles ==
  {[type |-> MimePng, bytes |-> "o"], [type |-> MimePng, bytes |-> "O"],
   [type |-> MimePdf, bytes |-> "o"], [type |-> MimeNone, bytes |-> "o"]}
NoFile == [type |-> MimeNone, bytes |-> ""]

\* readAsDataURL whose result on error is the empty string instead of null
ReadAsDataURLEmptyOnError(file, ok) ==
  IF ok
    THEN Str(<<"data:">>
             \o (IF file.type = <<>> THEN <<"application/octet-stream">> ELSE file.type)
             \o <<";base64", ",", file.bytes>>)
    ELSE Str(<<>>)

\* FileReader.readAsDataURL: result on success, null on error
ReadAsDataURL(file, ok) ==
  IF ok
    THEN Str(<<"data:">>
             \o (IF file.type = <<>> THEN <<"application/octet-stream">> ELSE file.type)
             \o <<";base64", ",", file.bytes>>)
    ELSE Null

\* ------------------------------------------------------- object helpers
\* own enumerable keys of a value, as the object spread sees them
IdxKey(i) == CASE i = 1 -> "0" [] i = 2 -> "1" [] OTHER -> "2"
OwnKeys(x) ==
  CASE x.t = "object" -> DOMAIN x.f
    [] x.t = "array" -> {IdxKey(i) : i \in 1..Len(x.v)}
    [] OTHER -> {}
OwnValue(x, k) ==
  IF x.t = "object" THEN x.f[k]
  ELSE x.v[CHOOSE i \in 1..Len(x.v) : IdxKey(i) = k]

\* x.k : a TypeError on null/undefined, undefined when the key is missing
GetProp(x, k) ==
  IF x.t \in {"null", "undefined"} THEN Throw
  ELSE IF x.t = "object" /\ k \in DOMAIN x.f THEN Return(x.f[k])
  ELSE Return(Undefined)

\* { ...x, findings: v }
SpreadWithFindings(x, v) ==
  Obj([k \in OwnKeys(x) \cup {"findings"} |->
         IF k = "findings" THEN v ELSE OwnValue(x, k)])

IsArray(x) == x.t = "array"

\* ------------------------------------------------- geminiService: inputs
\* findings the analysis model can report (box in thousandths of the image)
F1 == Obj([label |-> Str(<<"Nodule">>), confidence |-> Str(<<"H", "i", "g", "h">>),
           explanation |-> Str(<<"x">>),
           box_2d |-> Obj([ymin |-> Num(100), xmin |-> Num(100),
                           ymax |-> Num(300), xmax |-> Num(400)])])
F2 == Obj([label |-> Str(<<"Glucose">>), confidence |-> Str(<<"L", "o", "w">>),
           explanation |-> Str(<<"y">>)])
SummaryText == Str(<<"summary">>)
DisclaimerText == Str(<<"disclaimer">>)

\* AIInsight values (types.ts:41-48): the object generateHealthInsights
\* serialises in its catch block (geminiService.ts:65-72), and a scored one
ZeroScoreInsight ==
  Obj([healthScore |-> Num(0),
       summary |-> Str(<<"Error generating insights. Please try again.">>),
       riskFactors |-> Arr(<<>>), recommendations |-> Arr(<<>>),
       doctorSpecialty |-> Str(<<"General Physician">>),
       urgency |-> Str(<<"Low">>)])
ScoredInsight(score, urgency) ==
  Obj([healthScore |-> Num(score),
       summary |-> Str(<<"status">>),
       riskFactors |-> Arr(<<Str(<<"r1">>), Str(<<"r2">>), Str(<<"r3">>)>>),
       recommendations |-> Arr(<<Str(<<"a1">>), Str(<<"a2">>), Str(<<"a3">>)>>),
       doctorSpecialty |-> Str(<<"Cardiologist">>),
       urgency |-> Str(<<urgency>>)])
\* decimal digits of a health score, and the number they denote
ScoreDigits(n) ==
  CASE n = 0 -> "0" [] n = 35 -> "35" [] n = 72 -> "72" [] n = 100 -> "100"
    [] OTHER -> "NaN"
ScoreOf(digits) ==
  CASE digits = "0" -> 0 [] digits = "35" -> 35 [] digits = "72" -> 72
    [] OTHER -> 100
\* JSON.stringify of an AIInsight: the text, token by token
JSONStringify(o) ==
  Str(<<"{insight:", ScoreDigits(o.f.healthScore.v), o.f.urgency.v[1],
        IF o.f.riskFactors.v = <<>> THEN "[]" ELSE "[r1,r2,r3]", "}">>)

\* JSON.parse on the response texts of the model; anything else is a
\* SyntaxError
JSONParse(text) ==
  LET tok == IF text.v = <<>> THEN "" ELSE Head(text.v) IN
  CASE tok = "null" -> Return(Null)
    [] tok = "7" -> Return(Num(7))
    [] tok = "{s,f:[F1,F2],d}" ->
         Return(Obj([summary |-> SummaryText, findings |-> Arr(<<F1, F2>>),
                     disclaimer |-> DisclaimerText]))
    [] tok = "{s,d}" ->
         Return(Obj([summary |-> SummaryText, disclaimer |-> DisclaimerText]))
    [] tok = "{s,f:null,d}" ->
         Return(Obj([summary |-> SummaryText, findings |-> Null,
                     disclaimer |-> DisclaimerText]))
    [] tok = "{s,f:'x',d}" ->
         Return(Obj([summary |-> SummaryText, findings |-> Str(<<"x">>),
                     disclaimer |-> DisclaimerText]))
    [] tok = "{f:[F1]}" -> Return(Obj([findings |-> Arr(<<F1>>)]))
    [] tok = "{}" -> Return(Obj(<<>>))
    [] tok = "{insight:" ->
         Return(IF text.v[4] = "[]" /\ text.v[2] = "0" /\ text.v[3] = "Low"
                  THEN ZeroScoreInsight
                  ELSE ScoredInsight(ScoreOf(text.v[2]), text.v[3]))
    [] OTHER -> Throw

JsonTexts == {"null", "7", "{s,f:[F1,F2],d}", "{s,d}", "{s,f:null,d}",
              "{s,f:'x',d}", "{f:[F1]}", "<html>"}

\* what ai.models.generateContent can do for the analysis call
AnalyzeResponses ==
  {[kind |-> "throws", text |-> Undefined]}
    \cup {[kind |-> "response", text |-> x] : x \in {Undefined, Str(<<>>)}}
    \cup {[kind |-> "response", text |-> Str(<<tok>>)] : tok \in JsonTexts}

\* parts of the enhancement response
TextPart == [inlineData |-> Undefined]
InlinePart(d) == [inlineData |-> Obj([data |-> d])]
EnhancedData == Str(<<"e">>)

\* what ai.models.generateContent can do for the enhancement call
EnhanceResponses ==
  {[kind |-> "throws", parts |-> <<>>]}
    \cup {[kind |-> "response", parts |-> ps] :
            ps \in {<<>>, <<TextPart>>, <<TextPart, InlinePart(EnhancedData)>>,
                    <<InlinePart(Str(<<>>))>>}}

\* ------------------------------------------------------ geminiService.ts
\* getGenAIClient: null without process.env.API_KEY
getGenAIClient(apiKey) == IF ~apiKey THEN Null ELSE Obj([models |-> Str(<<"ai">>)])

RECURSIVE FirstInlineData(_)
\* the for loop of processMedicalImage: data of the first part that has
\* inlineData, null when no part has
FirstInlineData(parts) ==
  IF parts = <<>> THEN Null
  ELSE IF Truthy(Head(parts).inlineData)
         THEN GetProp(Head(parts).inlineData, "data").value
         ELSE FirstInlineData(Tail(parts))

\* the try block of processMedicalImage
processMedicalImageTry(r) ==
  IF r.kind = "throws" THEN Throw ELSE Return(FirstInlineData(r.parts))

\* processMedicalImage without its catch block
processMedicalImageNoCatch(apiKey, r) ==
  IF ~Truthy(getGenAIClient(apiKey)) THEN Return(Null)
  ELSE processMedicalImageTry(r)

processMedicalImage(apiKey, r) ==
  IF ~Truthy(getGenAIClient(apiKey)) THEN Return(Null)
  ELSE LET c == processMedicalImageTry(r) IN
       IF c.thrown THEN Return(Null) ELSE c

defaultError ==
  Obj([summary |-> Str(<<"Analysis failed.">>), findings |-> Arr(<<>>),
       disclaimer |-> Str(<<"System Error.">>)])

catchResult ==
  Obj([summary |-> Str(<<"Could not process image.">>), findings |-> Arr(<<>>),
       disclaimer |-> Str(<<"Error occurred during analysis.">>)])

\* the try block without the Array.isArray coercion of findings
analyzeMedicalDocumentTryNoCoercion(r) ==
  IF r.kind = "throws" THEN Throw
  ELSE IF ~Truthy(r.text) THEN Return(defaultError)
  ELSE LET parsed == JSONParse(r.text) IN
       IF parsed.thrown THEN Throw
       ELSE LET fnd == GetProp(parsed.value, "findings") IN
            IF fnd.thrown THEN Throw
            ELSE Return(SpreadWithFindings(parsed.value, fnd.value))

\* the try block of analyzeMedicalDocument
analyzeMedicalDocumentTry(r) ==
  IF r.kind = "throws" THEN Throw
  ELSE IF ~Truthy(r.text) THEN Return(defaultError)
  ELSE LET parsed == JSONParse(r.text) IN
       IF parsed.thrown THEN Throw
       ELSE LET fnd == GetProp(parsed.value, "findings") IN
            IF fnd.thrown THEN Throw
            ELSE Return(SpreadWithFindings(parsed.value,
                          IF IsArray(fnd.value) THEN fnd.value ELSE Arr(<<>>)))

\* analyzeMedicalDocument whose catch block returns defaultError
analyzeMedicalDocumentCatchDefault(apiKey, r) ==
  IF ~Truthy(getGenAIClient(apiKey)) THEN Return(defaultError)
  ELSE LET c == analyzeMedicalDocumentTry(r) IN
       IF c.thrown THEN Return(defaultError) ELSE c

analyzeMedicalDocument(apiKey, r) ==
  IF ~Truthy(getGenAIClient(apiKey)) THEN Return(defaultError)
  ELSE LET c == analyzeMedicalDocumentTry(r) IN
       IF c.thrown THEN Return(catchResult) ELSE c

\* ----------------------------------------------------- firebaseService.ts
\* the size limit of addPatientReport
StripLimit == 800000

\* safeFile of addPatientReport
SafeFile(file) ==
  IF (IF Truthy(file.previewUrl) THEN StrLen(file.previewUrl.v) ELSE 0) > StripLimit
    THEN [file EXCEPT !.previewUrl = Str(<<>>), !.processedUrl = Str(<<>>)]
    ELSE file

\* an arrayUnion that puts the new element in front
ArrayUnionFront(arr, x) ==
  IF \E i \in 1..Len(arr) : arr[i] = x THEN arr ELSE <<x>> \o arr

\* arrayUnion: append unless an equal element is there already
ArrayUnion(arr, x) ==
  IF \E i \in 1..Len(arr) : arr[i] = x THEN arr ELSE Append(arr, x)

\* ------------------------------------------------------------------ state
VARIABLES
  isUploading,          \* App state (App.tsx:54)
  processingStatus,     \* App state (App.tsx:55)
  files,                \* App state (App.tsx:50), newest first in local mode
  isFirebaseConnected,  \* App state (App.tsx:56), set once on mount
  apiKey,               \* process.env.API_KEY is set
  reports,              \* the reports array of the patient document
  now,                  \* last reading of Date.now()
  pc,                   \* per slot: where the upload's async callback stands
  loc,                  \* per slot: the local variables of handleFileUpload
  calls,                \* per slot: the asynchronous calls issued and settled
  viewMode,             \* ImageAnnotator state of the first card (ImageAnnotator.tsx:14)
  hoveredIndex,         \* ImageAnnotator state of the first card (ImageAnnotator.tsx:13)
  pointer,              \* the last pointer event delivered to the first card
  display,              \* the size at which the browser lays out the annotated image
  exportJob,            \* the Image that downloadAnnotatedImage is loading
  exported,             \* the canvas and download made by the last finished export
  isAnalyzing,          \* App state (App.tsx:53)
  aiInsight,            \* App state (App.tsx:52)
  insightCall           \* the call of generateHealthInsights made by refreshAIInsights

viewVars == <<viewMode, hoveredIndex, pointer, display, exportJob, exported>>
insightVars == <<isAnalyzing, aiInsight, insightCall>>

vars == <<isUploading, processingStatus, files, isFirebaseConnected, apiKey,
          reports, now, pc, loc, calls, viewVars, insightVars>>

NoLocals ==
  [file |-> NoFile, base64DataUrl |-> Undefined, base64String |-> Undefined,
   processedImageBase64 |-> Null, finalImageBase64 |-> Undefined,
   newFile |-> Undefined]

\* one asynchronous call: st is none / pending / resolved / rejected,
\* arg what was passed, ext what the external service did, ret what came back
NoCall == [st |-> "none", arg |-> Undefined, ext |-> Undefined, ret |-> Undefined]
Pending(a) == [st |-> "pending", arg |-> a, ext |-> Undefined, ret |-> Undefined]
NoCalls == [read |-> NoCall, enhance |-> NoCall, analyze |-> NoCall, persist |-> NoCall]

\* no pointer event yet
NoEvent == [type |-> "none", on |-> "none", idx |-> 0]

Stages == {"read", "enhance", "analyze", "persist"}
Running == {"reading", "enhancing", "analyzing", "saving"}

Init ==
  /\ isUploading = FALSE
  /\ processingStatus = ""
  /\ files = <<>>
  /\ isFirebaseConnected \in BOOLEAN
  /\ apiKey \in BOOLEAN
  /\ reports = <<>>
  /\ now = 0
  /\ pc = [p \in Slots |-> "idle"]
  /\ loc = [p \in Slots |-> NoLocals]
  /\ calls = [p \in Slots |-> NoCalls]
  /\ viewMode = "combined"
  /\ hoveredIndex = Null
  /\ pointer = NoEvent
  /\ display = [width |-> 600, height |-> 480]
  /\ exportJob = Null
  /\ exported = Null
  \* the mount effect has called refreshAIInsights (App.tsx:76)
  /\ isAnalyzing = TRUE
  /\ aiInsight = Null
  /\ insightCall = Pending(Undefined)

\* ---------------------------------------------------------------- App.tsx
\* the slot a new invocation of handleFileUpload takes: the first one whose
\* callback is not in flight
FreeSlot(p) ==
  /\ pc[p] \notin Running
  /\ \A q \in Slots : q < p => pc[q] \in Running

\* handleFileUpload up to reader.readAsDataURL(file)  (App.tsx:98-105,153)
handleFileUpload(p, file) ==
  /\ FreeSlot(p)
  /\ Len(files) < MaxFiles
  /\ Len(reports) < MaxFiles
  /\ isUploading' = TRUE
  /\ processingStatus' = "Uploading..."
  /\ pc' = [pc EXCEPT ![p] = "reading"]
  /\ loc' = [loc EXCEPT ![p] = [NoLocals EXCEPT !.file = file]]
  /\ calls' = [calls EXCEPT ![p] = [NoCalls EXCEPT !.read = Pending(Undefined)]]
  /\ UNCHANGED <<files, isFirebaseConnected, apiKey, reports, now>>
  /\ UNCHANGED <<viewVars, insightVars>>

\* a file input that stays enabled during an upload
OnFileChangeEnabled(p, file) == handleFileUpload(p, file)

\* the change event of the file input, which is disabled while isUploading
\* (UploadReport.tsx:87)
OnFileChange(p, file) ==
  /\ ~isUploading
  /\ handleFileUpload(p, file)

\* a finally block that forgets to clear the label
FinallyKeepsLabel ==
  /\ isUploading' = FALSE
  /\ UNCHANGED processingStatus

\* the finally block (App.tsx:148-151); the two setState calls of one
\* handler are committed in one render
Finally ==
  /\ isUploading' = FALSE
  /\ processingStatus' = ""

\* step 2 of the callback: the label and the call of analyzeMedicalDocument
\* (App.tsx:126-127)
StartAnalysis(p, l, c) ==
  /\ processingStatus' = "Detecting anomalies..."
  /\ pc' = [pc EXCEPT ![p] = "analyzing"]
  /\ loc' = [loc EXCEPT ![p] = l]
  /\ calls' = [calls EXCEPT ![p] = [c EXCEPT !.analyze = Pending(l.finalImageBase64)]]
  /\ UNCHANGED isUploading

\* reader.onloadend that does not await processMedicalImage: the analysis of
\* the original bytes is issued while the enhancement is still pending
ReaderOnLoadEndNoAwait(p, ok) ==
  /\ pc[p] = "reading"
  /\ LET result == ReadAsDataURL(loc[p].file, ok)
         c == [calls[p] EXCEPT !.read = [@ EXCEPT !.st = IF ok THEN "resolved" ELSE "rejected",
                                                  !.ret = result]]
     IN IF result.t # "string"
          THEN /\ pc' = [pc EXCEPT ![p] = "crashed"]
               /\ calls' = [calls EXCEPT ![p] = c]
               /\ UNCHANGED <<isUploading, processingStatus, loc>>
          ELSE LET l == [loc[p] EXCEPT !.base64DataUrl = result,
                                       !.base64String = SplitComma1(result.v),
                                       !.finalImageBase64 = SplitComma1(result.v)]
               IN IF StartsWith(loc[p].file.type, ImagePrefix)
                    THEN /\ processingStatus' = "Detecting anomalies..."
                         /\ pc' = [pc EXCEPT ![p] = "enhancing"]
                         /\ loc' = [loc EXCEPT ![p] = l]
                         /\ calls' = [calls EXCEPT ![p] =
                                        [c EXCEPT !.enhance = Pending(l.base64String),
                                                  !.analyze = Pending(l.finalImageBase64)]]
                         /\ UNCHANGED isUploading
                    ELSE StartAnalysis(p, l, c)
  /\ UNCHANGED <<files, isFirebaseConnected, apiKey, reports, now>>
  /\ UNCHANGED <<viewVars, insightVars>>

\* reader.onloadend up to its first await  (App.tsx:106-127)
ReaderOnLoadEnd(p, ok) ==
  /\ pc[p] = "reading"
  /\ LET result == ReadAsDataURL(loc[p].file, ok)
         c == [calls[p] EXCEPT !.read = [@ EXCEPT !.st = IF ok THEN "resolved" ELSE "rejected",
                                                  !.ret = result]]
     IN IF result.t # "string"
          \* base64DataUrl.split throws before the try block is entered
          THEN /\ pc' = [pc EXCEPT ![p] = "crashed"]
               /\ calls' = [calls EXCEPT ![p] = c]
               /\ UNCHANGED <<isUploading, processingStatus, loc>>
          ELSE LET l == [loc[p] EXCEPT !.base64DataUrl = result,
                                       !.base64String = SplitComma1(result.v),
                                       !.finalImageBase64 = SplitComma1(result.v)]
               IN IF StartsWith(loc[p].file.type, ImagePrefix)
                    THEN /\ processingStatus' = "Removing noise & cropping..."
                         /\ pc' = [pc EXCEPT ![p] = "enhancing"]
                         /\ loc' = [loc EXCEPT ![p] = l]
                         /\ calls' = [calls EXCEPT ![p] =
                                        [c EXCEPT !.enhance = Pending(l.base64String)]]
                         /\ UNCHANGED isUploading
                    ELSE StartAnalysis(p, l, c)
  /\ UNCHANGED <<files, isFirebaseConnected, apiKey, reports, now>>
  /\ UNCHANGED <<viewVars, insightVars>>

\* processMedicalImage settles and the callback runs to its next await
\* (App.tsx:118-127)
ProcessMedicalImageSettles(p, r) ==
  /\ pc[p] = "enhancing"
  /\ LET out == processMedicalImage(apiKey, r)
         c == [calls[p] EXCEPT !.enhance =
                 [@ EXCEPT !.st = IF out.thrown THEN "rejected" ELSE "resolved",
                           !.ext = IF apiKey THEN r ELSE Undefined,
                           !.ret = out.value]]
     IN IF out.thrown
          THEN /\ Finally
               /\ pc' = [pc EXCEPT ![p] = "failed"]
               /\ calls' = [calls EXCEPT ![p] = c]
               /\ UNCHANGED loc
          ELSE LET processed == out.value
                   l == IF Truthy(processed)
                          THEN [loc[p] EXCEPT !.processedImageBase64 = processed,
                                              !.finalImageBase64 = processed]
                          ELSE loc[p]
               IN StartAnalysis(p, l, c)
  /\ UNCHANGED <<files, isFirebaseConnected, apiKey, reports, now>>
  /\ UNCHANGED <<viewVars, insightVars>>

\* a record that is listed before its analysis is attached
NewFilePending(l, t, analysisResult) ==
  [id |-> Str(<<ToString(t)>>),
   name |-> Str(<<"scan">>),
   type |-> Str(l.file.type),
   date |-> Str(<<"T", ToString(t)>>),
   previewUrl |-> l.base64DataUrl,
   processedUrl |-> IF Truthy(l.processedImageBase64)
                      THEN Str(<<"data:image/png;base64", ",">> \o l.processedImageBase64.v)
                      ELSE Undefined,
   analysisResult |-> Undefined]

\* a record that never carries the enhanced image
NewFileNoProcessedUrl(l, t, analysisResult) ==
  [id |-> Str(<<ToString(t)>>),
   name |-> Str(<<"scan">>),
   type |-> Str(l.file.type),
   date |-> Str(<<"T", ToString(t)>>),
   previewUrl |-> l.base64DataUrl,
   processedUrl |-> Undefined,
   analysisResult |-> analysisResult]

\* the UploadedFile built at App.tsx:129-137
NewFile(l, t, analysisResult) ==
  [id |-> Str(<<ToString(t)>>),
   name |-> Str(<<"scan">>),
   type |-> Str(l.file.type),
   date |-> Str(<<"T", ToString(t)>>),
   previewUrl |-> l.base64DataUrl,
   processedUrl |-> IF Truthy(l.processedImageBase64)
                      THEN Str(<<"data:image/png;base64", ",">> \o l.processedImageBase64.v)
                      ELSE Undefined,
   analysisResult |-> analysisResult]

\* an updater that forgets the list it is given
PrependFileDropsPrev(prev, newFile) == <<newFile>>

\* the updater passed to setFiles, prev => [newFile, ...prev]  (App.tsx:143)
PrependFile(prev, newFile) == <<newFile>> \o prev

\* analyzeMedicalDocument settles and the callback runs to its next await or
\* to its end  (App.tsx:127-151)
AnalyzeMedicalDocumentSettles(p, r, t) ==
  /\ pc[p] = "analyzing"
  /\ t >= now
  /\ LET out == analyzeMedicalDocument(apiKey, r)
         c == [calls[p] EXCEPT !.analyze =
                 [@ EXCEPT !.st = IF out.thrown THEN "rejected" ELSE "resolved",
                           !.ext = IF apiKey THEN r ELSE Undefined,
                           !.ret = out.value]]
     IN IF out.thrown
          THEN /\ Finally
               /\ pc' = [pc EXCEPT ![p] = "failed"]
               /\ calls' = [calls EXCEPT ![p] = c]
               /\ UNCHANGED <<loc, files, now>>
          ELSE LET newFile == NewFile(loc[p], t, out.value) IN
               /\ now' = t
               /\ loc' = [loc EXCEPT ![p].newFile = newFile]
               /\ IF isFirebaseConnected
                    THEN /\ processingStatus' = "Saving to database..."
                         /\ pc' = [pc EXCEPT ![p] = "saving"]
                         /\ calls' = [calls EXCEPT ![p] = [c EXCEPT !.persist = Pending(newFile)]]
                         /\ UNCHANGED <<isUploading, files>>
                    ELSE /\ files' = PrependFile(files, newFile)
                         /\ Finally
                         /\ pc' = [pc EXCEPT ![p] = "done"]
                         /\ calls' = [calls EXCEPT ![p] = c]
  /\ UNCHANGED <<isFirebaseConnected, apiKey, reports>>
  /\ UNCHANGED <<viewVars, insightVars>>

\* a callback that, when the write is rejected, falls back to the local list
AddPatientReportSettlesLocalFallback(p, ok) ==
  /\ pc[p] = "saving"
  /\ LET file == calls[p].persist.arg
     IN IF ok
          THEN /\ reports' = ArrayUnion(reports, SafeFile(file))
               /\ calls' = [calls EXCEPT ![p].persist.st = "resolved",
                                         ![p].persist.ext = SafeFile(file)]
               /\ pc' = [pc EXCEPT ![p] = "done"]
               /\ UNCHANGED files
          ELSE /\ calls' = [calls EXCEPT ![p].persist.st = "rejected"]
               /\ pc' = [pc EXCEPT ![p] = "failed"]
               /\ files' = <<file>> \o files
               /\ UNCHANGED reports
  /\ Finally
  /\ UNCHANGED <<isFirebaseConnected, apiKey, now, loc>>
  /\ UNCHANGED <<viewVars, insightVars>>

\* addPatientReport settles (firebaseService.ts:81-100) and the callback runs
\* to its end (App.tsx:141-151); ok: updateDoc resolves, otherwise it rejects
AddPatientReportSettles(p, ok) ==
  /\ pc[p] = "saving"
  /\ LET file == calls[p].persist.arg
         db == isFirebaseConnected
     IN IF ~db
          THEN /\ calls' = [calls EXCEPT ![p].persist.st = "resolved"]
               /\ pc' = [pc EXCEPT ![p] = "done"]
               /\ UNCHANGED reports
          ELSE IF ok
            THEN /\ reports' = ArrayUnion(reports, SafeFile(file))
                 /\ calls' = [calls EXCEPT ![p].persist.st = "resolved",
                                           ![p].persist.ext = SafeFile(file)]
                 /\ pc' = [pc EXCEPT ![p] = "done"]
            ELSE /\ calls' = [calls EXCEPT ![p].persist.st = "rejected"]
                 /\ pc' = [pc EXCEPT ![p] = "failed"]
                 /\ UNCHANGED reports
  /\ Finally
  /\ UNCHANGED <<files, isFirebaseConnected, apiKey, now, loc>>
  /\ UNCHANGED <<viewVars, insightVars>>

\* the onSnapshot callback of syncPatientData (firebaseService.ts:47-49) and
\* the onData callback of the mount effect (App.tsx:81-86)
OnSnapshot ==
  /\ isFirebaseConnected
  /\ files # reports
  /\ files' = reports
  /\ UNCHANGED <<isUploading, processingStatus, isFirebaseConnected, apiKey,
                 reports, now, pc, loc, calls>>
  /\ UNCHANGED <<viewVars, insightVars>>

Next ==
  \/ \E p \in Slots, file \in PickedFiles : OnFileChange(p, file)
  \/ \E p \in Slots, ok \in BOOLEAN : ReaderOnLoadEnd(p, ok)
  \/ \E p \in Slots, r \in EnhanceResponses : ProcessMedicalImageSettles(p, r)
  \/ \E p \in Slots, r \in AnalyzeResponses, t \in 0..MaxClock :
       AnalyzeMedicalDocumentSettles(p, r, t)
  \/ \E p \in Slots, ok \in BOOLEAN : AddPatientReportSettles(p, ok)
  \/ OnSnapshot

Spec == Init /\ [][Next]_vars

\* handleFileUpload called again while an earlier call's callback is still in
\* flight: the same handlers, entered without the guard of the file input.
\* The inputs are one image that is read and enhanced, and an analysis that
\* fails or returns findings.
ConcFiles == {f \in PickedFiles : f.bytes = "o" /\ f.type = MimePng}
ConcEnhanceResponses ==
  {r \in EnhanceResponses : r.parts = <<TextPart, InlinePart(EnhancedData)>>}
ConcAnalyzeResponses ==
  {r \in AnalyzeResponses :
     r.kind = "throws" \/ r.text = Str(<<"{s,f:[F1,F2],d}">>)}

NextConc ==
  \/ \E p \in Slots, file \in ConcFiles : handleFileUpload(p, file)
  \/ \E p \in Slots : ReaderOnLoadEnd(p, TRUE)
  \/ \E p \in Slots, r \in ConcEnhanceResponses : ProcessMedicalImageSettles(p, r)
  \/ \E p \in Slots, r \in ConcAnalyzeResponses, t \in 0..MaxClock :
       AnalyzeMedicalDocumentSettles(p, r, t)
  \/ \E p \in Slots, ok \in BOOLEAN : AddPatientReportSettles(p, ok)
  \/ OnSnapshot

SpecConc == Init /\ [][NextConc]_vars

\* uploads as far as the store is concerned: an image below or above the
\* size limit of a record, an enhancement that returns nothing, a small
\* image or an image above the limit, and an analysis that returns findings
StoreFiles == {f \in PickedFiles : f.type = MimePng}
StoreEnhanceResponses ==
  {[kind |-> "response", parts |-> ps] :
     ps \in {<<TextPart>>, <<TextPart, InlinePart(EnhancedData)>>,
             <<InlinePart(Str(<<"O">>))>>}}
StoreAnalyzeResponses ==
  {r \in AnalyzeResponses : r.kind # "throws" /\ r.text = Str(<<"{s,f:[F1,F2],d}">>)}

NextStore ==
  \/ \E p \in Slots, file \in StoreFiles : OnFileChange(p, file)
  \/ \E p \in Slots : ReaderOnLoadEnd(p, TRUE)
  \/ \E p \in Slots, r \in StoreEnhanceResponses : ProcessMedicalImageSettles(p, r)
  \/ \E p \in Slots, r \in StoreAnalyzeResponses, t \in 0..MaxClock :
       AnalyzeMedicalDocumentSettles(p, r, t)
  \/ \E p \in Slots, ok \in BOOLEAN : AddPatientReportSettles(p, ok)
  \/ OnSnapshot

SpecStore == Init /\ [][NextStore]_vars


\* ------------------------------------------------------ ImageAnnotator.tsx
\* a || b
Or(a, b) == IF Truthy(a) THEN a ELSE b
\* x?.k
OptProp(x, k) == IF x.t \in {"null", "undefined"} THEN Undefined ELSE GetProp(x, k).value

UpperCase == <<"A", "B", "C", "D", "E", "F", "G", "H", "I", "J", "K", "L", "M",
               "N", "O", "P", "Q", "R", "S", "T", "U", "V", "W", "X", "Y", "Z">>
LowerCase == <<"a", "b", "c", "d", "e", "f", "g", "h", "i", "j", "k", "l", "m",
               "n", "o", "p", "q", "r", "s", "t", "u", "v", "w", "x", "y", "z">>
\* String.prototype.toLowerCase on a sequence of characters
ToLowerCase(s) ==
  [i \in 1..Len(s) |->
     IF \E k \in 1..26 : UpperCase[k] = s[i]
       THEN LowerCase[CHOOSE k \in 1..26 : UpperCase[k] = s[i]]
       ELSE s[i]]

\* an includes that only looks at the beginning of the string
IncludesAtStart(s, sub) ==
  Len(sub) <= Len(s) /\ \A j \in 1..Len(sub) : s[j] = sub[j]

\* String.prototype.includes
Includes(s, sub) ==
  \E i \in 0..(Len(s) - Len(sub)) : \A j \in 1..Len(sub) : s[i + j] = sub[j]

GradientHigh ==
  "radial-gradient(circle at center, rgba(220, 38, 38, 1) 0%, rgba(220, 38, 38, 0.6) 45%, transparent 85%)"
GradientMedium ==
  "radial-gradient(circle at center, rgba(234, 88, 12, 0.9) 0%, rgba(234, 88, 12, 0.5) 45%, transparent 85%)"
GradientLow ==
  "radial-gradient(circle at center, rgba(202, 138, 4, 0.8) 0%, rgba(202, 138, 4, 0.4) 45%, transparent 85%)"

\* getHeatmapStyle (ImageAnnotator.tsx:21-33), for a string or a missing value
getHeatmapStyle(confidence) ==
  LET lowered == IF confidence.t \in {"null", "undefined"}
                   THEN Undefined
                   ELSE Str(ToLowerCase(confidence.v))
      c == Or(lowered, Str(<<>>)).v
  IN IF Includes(c, <<"h", "i", "g", "h">>) THEN GradientHigh
     ELSE IF Includes(c, <<"m", "e", "d", "i", "u", "m">>) THEN GradientMedium
     ELSE GradientLow

\* visualFindings (ImageAnnotator.tsx:17)
visualFindings(findings) ==
  SelectSeq(Or(findings, Arr(<<>>)).v, LAMBDA f : Truthy(OptProp(f, "box_2d")))

\* the props UploadReport passes to ImageAnnotator (UploadReport.tsx:212)
AnnotatorProps(file) ==
  [imageUrl |-> Or(Or(file.processedUrl, file.previewUrl), Str(<<>>)),
   findings |-> Or(OptProp(file.analysisResult, "findings"), Arr(<<>>))]

\* a CSS percentage, in thousandths of a percent: n is in thousandths
Percent(n) == n * 100

\* the heatmap layer (ImageAnnotator.tsx:97-120): one patch per visual finding
HeatmapLayer(findings, mode) ==
  IF mode \in {"heatmap", "combined"}
    THEN LET vf == visualFindings(findings) IN
         [i \in 1..Len(vf) |->
            LET b == OptProp(vf[i], "box_2d").f IN
            [key |-> i - 1,
             top |-> Percent(b.ymin.v), left |-> Percent(b.xmin.v),
             height |-> Percent(b.ymax.v - b.ymin.v),
             width |-> Percent(b.xmax.v - b.xmin.v),
             background |-> getHeatmapStyle(OptProp(vf[i], "confidence"))]]
    ELSE <<>>

\* a box layer that is drawn in every view mode
BoxLayerAlways(findings, mode, hovered) ==
  LET vf == visualFindings(findings) IN
  [i \in 1..Len(vf) |->
     LET b == OptProp(vf[i], "box_2d").f
         isHovered == hovered = Num(i - 1)
     IN [key |-> i - 1,
         top |-> Percent(b.ymin.v), left |-> Percent(b.xmin.v),
         height |-> Percent(b.ymax.v - b.ymin.v),
         width |-> Percent(b.xmax.v - b.xmin.v),
         zIndex |-> IF isHovered THEN 30 ELSE 20,
         badge |-> (i - 1) + 1,
         tooltip |-> IF isHovered
                       THEN Obj([label |-> OptProp(vf[i], "label"),
                                 confidence |-> OptProp(vf[i], "confidence")])
                       ELSE Null]]

\* the box layer (ImageAnnotator.tsx:123-180): outline, badge and, for the
\* hovered one, the raised stacking order and the tooltip
BoxLayer(findings, mode, hovered) ==
  IF mode \in {"box", "combined"}
    THEN LET vf == visualFindings(findings) IN
         [i \in 1..Len(vf) |->
            LET b == OptProp(vf[i], "box_2d").f
                isHovered == hovered = Num(i - 1)
            IN [key |-> i - 1,
                top |-> Percent(b.ymin.v), left |-> Percent(b.xmin.v),
                height |-> Percent(b.ymax.v - b.ymin.v),
                width |-> Percent(b.xmax.v - b.xmin.v),
                zIndex |-> IF isHovered THEN 30 ELSE 20,
                badge |-> (i - 1) + 1,
                tooltip |-> IF isHovered
                              THEN Obj([label |-> OptProp(vf[i], "label"),
                                        confidence |-> OptProp(vf[i], "confidence")])
                              ELSE Null]]
    ELSE <<>>

\* the legend below the image (ImageAnnotator.tsx:192-201)
Legend(findings) ==
  LET vf == visualFindings(findings) IN
  [i \in 1..Len(vf) |-> [key |-> i - 1, number |-> (i - 1) + 1, label |-> OptProp(vf[i], "label")]]

\* the Detailed Anomalies list of the card (UploadReport.tsx:252-274): one
\* entry per finding; reading toLowerCase of a missing confidence throws
DetailedAnomalies(file) ==
  LET fs == OptProp(file.analysisResult, "findings") IN
  IF ~Truthy(file.analysisResult) \/ ~Truthy(fs) \/ Len(fs.v) = 0
    THEN Return(<<>>)
    ELSE IF \E i \in 1..Len(fs.v) : OptProp(fs.v[i], "confidence").t # "string"
      THEN Throw
      ELSE Return([i \in 1..Len(fs.v) |->
                     [number |-> (i - 1) + 1, label |-> OptProp(fs.v[i], "label"),
                      confidence |-> OptProp(fs.v[i], "confidence")]])

\* the card of the file mounts an ImageAnnotator (UploadReport.tsx:145,211),
\* provided the render of the card does not throw
AnnotatorMounted(file) ==
  /\ ~DetailedAnomalies(file).thrown
  /\ Includes(file.type.v, <<"i", "m", "a", "g", "e">>)
  /\ Truthy(Or(file.processedUrl, file.previewUrl))

\* setViewMode through one of the three buttons (ImageAnnotator.tsx:45,54,63)
SetViewMode(mode) ==
  /\ files # <<>> /\ AnnotatorMounted(files[1])
  /\ viewMode' = mode
  /\ UNCHANGED <<hoveredIndex, pointer, display, exportJob, exported>>
  /\ UNCHANGED <<isUploading, processingStatus, files, isFirebaseConnected,
                 apiKey, reports, now, pc, loc, calls, insightVars>>

\* a pointer-enter handler that ignores the event while something is hovered
MouseEnterKeepsFirst(on, i) ==
  /\ files # <<>> /\ AnnotatorMounted(files[1])
  /\ i \in 0..(Len(visualFindings(AnnotatorProps(files[1]).findings)) - 1)
  /\ on = "box" => viewMode \in {"box", "combined"}
  /\ hoveredIndex' = IF hoveredIndex = Null THEN Num(i) ELSE hoveredIndex
  /\ pointer' = [type |-> "enter", on |-> on, idx |-> i]
  /\ UNCHANGED <<viewMode, display, exportJob, exported>>
  /\ UNCHANGED <<isUploading, processingStatus, files, isFirebaseConnected,
                 apiKey, reports, now, pc, loc, calls, insightVars>>

\* onMouseEnter of box i (ImageAnnotator.tsx:140) or of legend entry i
\* (ImageAnnotator.tsx:195); a box exists only while the box layer is drawn
MouseEnter(on, i) ==
  /\ files # <<>> /\ AnnotatorMounted(files[1])
  /\ i \in 0..(Len(visualFindings(AnnotatorProps(files[1]).findings)) - 1)
  /\ on = "box" => viewMode \in {"box", "combined"}
  /\ hoveredIndex' = Num(i)
  /\ pointer' = [type |-> "enter", on |-> on, idx |-> i]
  /\ UNCHANGED <<viewMode, display, exportJob, exported>>
  /\ UNCHANGED <<isUploading, processingStatus, files, isFirebaseConnected,
                 apiKey, reports, now, pc, loc, calls, insightVars>>

\* a pointer-leave handler that clears the hover only when the finding left
\* is the hovered one
MouseLeaveOnlyHovered(on, i) ==
  /\ files # <<>> /\ AnnotatorMounted(files[1])
  /\ i \in 0..(Len(visualFindings(AnnotatorProps(files[1]).findings)) - 1)
  /\ on = "box" => viewMode \in {"box", "combined"}
  /\ hoveredIndex' = IF hoveredIndex = Num(i) THEN Null ELSE hoveredIndex
  /\ pointer' = [type |-> "leave", on |-> on, idx |-> i]
  /\ UNCHANGED <<viewMode, display, exportJob, exported>>
  /\ UNCHANGED <<isUploading, processingStatus, files, isFirebaseConnected,
                 apiKey, reports, now, pc, loc, calls, insightVars>>

\* onMouseLeave of box i (ImageAnnotator.tsx:141) or of legend entry i
\* (ImageAnnotator.tsx:195)
MouseLeave(on, i) ==
  /\ files # <<>> /\ AnnotatorMounted(files[1])
  /\ i \in 0..(Len(visualFindings(AnnotatorProps(files[1]).findings)) - 1)
  /\ on = "box" => viewMode \in {"box", "combined"}
  /\ hoveredIndex' = Null
  /\ pointer' = [type |-> "leave", on |-> on, idx |-> i]
  /\ UNCHANGED <<viewMode, display, exportJob, exported>>
  /\ UNCHANGED <<isUploading, processingStatus, files, isFirebaseConnected,
                 apiKey, reports, now, pc, loc, calls, insightVars>>

\* the sizes at which the browser can lay out the image of the annotator
\* (max-h-[600px] max-w-full, ImageAnnotator.tsx:87-92)
DisplaySizes == {[width |-> 600, height |-> 480], [width |-> 300, height |-> 240]}

\* the window is resized and the image laid out anew
ResizeViewport(d) ==
  /\ files # <<>> /\ AnnotatorMounted(files[1])
  /\ d # display
  /\ display' = d
  /\ UNCHANGED <<viewMode, hoveredIndex, pointer, exportJob, exported>>
  /\ UNCHANGED <<isUploading, processingStatus, files, isFirebaseConnected,
                 apiKey, reports, now, pc, loc, calls, insightVars>>

\* ------------------------------------- UploadReport.tsx: downloadAnnotatedImage
\* the intrinsic size in pixels of the image a data URL holds: the picked
\* images are 1000 x 800 (the large one 2000 x 1600), the enhanced one is
\* cropped to 500 x 400
ImageSize(url) ==
  LET data == url.v[Len(url.v)] IN
  CASE data = "e" -> [width |-> 500, height |-> 400]
    [] data = "O" -> [width |-> 2000, height |-> 1600]
    [] OTHER -> [width |-> 1000, height |-> 800]

\* ctx.measureText(text).width in thousandths of a pixel: 12 pixels a character
MeasureText(text) == 12000 * Len(text.v)

\* `${idx + 1}: ${finding.label}`
ExportLabel(idx, finding) ==
  Str(<<ToString(idx + 1), ":", " ">> \o OptProp(finding, "label").v)

\* a rectangle scaled by the size at which the image is displayed
BoxRectDisplayed(box, img) ==
  [x |-> box.xmin.v * display.width, y |-> box.ymin.v * display.height,
   w |-> (box.xmax.v - box.xmin.v) * display.width,
   h |-> (box.ymax.v - box.ymin.v) * display.height]

\* x, y, w, h of UploadReport.tsx:46-49, in thousandths of a pixel (the box
\* is in thousandths, img.width and img.height in pixels)
BoxRect(box, img) ==
  [x |-> box.xmin.v * img.width, y |-> box.ymin.v * img.height,
   w |-> (box.xmax.v - box.xmin.v) * img.width,
   h |-> (box.ymax.v - box.ymin.v) * img.height]

\* what findings.forEach draws for one finding (UploadReport.tsx:43-64)
DrawFinding(finding, idx, img) ==
  IF Truthy(OptProp(finding, "box_2d"))
    THEN LET r == BoxRect(OptProp(finding, "box_2d").f, img)
             label == ExportLabel(idx, finding)
         IN <<[op |-> "strokeRect", x |-> r.x, y |-> r.y, w |-> r.w, h |-> r.h,
               text |-> Undefined],
              [op |-> "fillRect", x |-> r.x, y |-> r.y - 30000,
               w |-> MeasureText(label) + 10000, h |-> 30000, text |-> Undefined],
              [op |-> "fillText", x |-> r.x + 5000, y |-> r.y - 8000, w |-> 0, h |-> 0,
               text |-> label]>>
    ELSE <<>>

RECURSIVE DrawFindings(_, _, _)
\* findings.forEach from index idx on
DrawFindings(fs, idx, img) ==
  IF idx >= Len(fs) THEN <<>>
  ELSE DrawFinding(fs[idx + 1], idx, img) \o DrawFindings(fs, idx + 1, img)

\* an export that takes the original image whenever there is one
DownloadAnnotatedImagePreviewFirst ==
  /\ files # <<>> /\ Includes(files[1].type.v, <<"i", "m", "a", "g", "e">>)
  /\ exportJob = Null
  /\ LET file == files[1]
         imageUrl == Or(file.previewUrl, file.processedUrl)
     IN IF ~Truthy(imageUrl) \/ ~Truthy(file.analysisResult)
          THEN UNCHANGED exportJob
          ELSE exportJob' = [file |-> file, src |-> imageUrl]
  /\ pointer' = [type |-> "click", on |-> "export", idx |-> 0]
  /\ UNCHANGED <<viewMode, hoveredIndex, display, exported>>
  /\ UNCHANGED <<isUploading, processingStatus, files, isFirebaseConnected,
                 apiKey, reports, now, pc, loc, calls, insightVars>>

\* the click on Export Analysis (UploadReport.tsx:203): downloadAnnotatedImage
\* up to img.src = imageUrl (UploadReport.tsx:20-26,73-74)
DownloadAnnotatedImage ==
  /\ files # <<>> /\ Includes(files[1].type.v, <<"i", "m", "a", "g", "e">>)
  /\ exportJob = Null
  /\ LET file == files[1]
         imageUrl == Or(file.processedUrl, file.previewUrl)
     IN IF ~Truthy(imageUrl) \/ ~Truthy(file.analysisResult)
          THEN UNCHANGED exportJob
          ELSE exportJob' = [file |-> file, src |-> imageUrl]
  /\ pointer' = [type |-> "click", on |-> "export", idx |-> 0]
  /\ UNCHANGED <<viewMode, hoveredIndex, display, exported>>
  /\ UNCHANGED <<isUploading, processingStatus, files, isFirebaseConnected,
                 apiKey, reports, now, pc, loc, calls, insightVars>>

\* img.onload (UploadReport.tsx:28-72); hasCtx: getContext('2d') gave a context
ImgOnLoad(hasCtx) ==
  /\ exportJob # Null
  /\ LET img == ImageSize(exportJob.src)
         file == exportJob.file
         findings == Or(OptProp(file.analysisResult, "findings"), Arr(<<>>)).v
     IN exported' =
          IF hasCtx
            THEN [width |-> img.width, height |-> img.height,
                  ops |-> <<[op |-> "drawImage", x |-> 0, y |-> 0, w |-> 0, h |-> 0,
                             text |-> Undefined]>>
                          \o DrawFindings(findings, 0, img),
                  download |-> Str(<<"processed-analysis-">> \o file.name.v \o <<".png">>)]
            ELSE exported
  /\ exportJob' = Null
  /\ UNCHANGED <<viewMode, hoveredIndex, pointer, display>>
  /\ UNCHANGED <<isUploading, processingStatus, files, isFirebaseConnected,
                 apiKey, reports, now, pc, loc, calls, insightVars>>

\* the records a card can show: an image, enhanced or not, with the findings
\* lists the analysis can return
Finding(label, confidence, box) ==
  Obj([label |-> Str(<<label>>), confidence |-> confidence,
       explanation |-> Str(<<"x">>), box_2d |-> box])
Box(ymin, xmin, ymax, xmax) ==
  Obj([ymin |-> Num(ymin), xmin |-> Num(xmin), ymax |-> Num(ymax), xmax |-> Num(xmax)])
F3 == Finding("Opacity", Str(<<"m", "e", "d", "i", "u", "m">>), Box(500, 200, 900, 600))
F4 == Finding("Mass", Str(<<"H", "I", "G", "H", " ", "r", "i", "s", "k">>), Box(0, 0, 500, 500))
F5 == Finding("Shadow", Str(<<>>), Box(200, 600, 400, 1000))
F6 == Finding("Artifact", Str(<<"u", "n", "e", "x", "p", "e", "c", "t", "e", "d">>),
              Box(700, 100, 800, 300))
F7 == Obj([label |-> Str(<<"Lesion">>), explanation |-> Str(<<"x">>),
           box_2d |-> Box(300, 300, 600, 700)])
F8 == Finding("Cyst", Str(<<"L", "o", "w">>), Box(100, 500, 200, 900))
F9 == Finding("Note", Str(<<"H", "i", "g", "h">>), Null)
F10 == Finding("Edema", Str(<<"M", "e", "d", "i", "u", "m", "-", "H", "i", "g", "h">>),
               Box(400, 400, 500, 500))
\* a box whose right edge is left of its left edge, and one that reaches
\* outside the image
F11 == Finding("Fold", Str(<<"L", "o", "w">>), Box(200, 600, 400, 300))
F12 == Finding("Edge", Str(<<"H", "i", "g", "h">>), Box(0 - 100, 800, 500, 1200))
FindingsLists ==
  {fs \in {<<>>, <<F1>>, <<F2, F1>>, <<F1, F2, F3>>, <<F4, F5, F6>>, <<F7, F8, F9>>,
           <<F2>>, <<F9, F10, F3>>, <<F11>>, <<F12, F1>>, <<F2, F8, F9, F1>>} :
     Len(fs) <= MaxFindings}

\* the record handleFileUpload builds for the picked image when the analysis
\* returned these findings, with or without an enhanced image
ViewFile(enhanced, findings) ==
  NewFile([NoLocals EXCEPT
             !.file = [type |-> MimePng, bytes |-> "o"],
             !.base64DataUrl = ReadAsDataURL([type |-> MimePng, bytes |-> "o"], TRUE),
             !.processedImageBase64 = IF enhanced THEN EnhancedData ELSE Null],
          0,
          Obj([summary |-> SummaryText, findings |-> Arr(findings),
               disclaimer |-> DisclaimerText]))
\* records as the snapshot of the store can deliver them: one whose images
\* were stripped by addPatientReport, one without analysisResult and one
\* without any image (the three fields are optional, types.ts:76-79)
StrippedFile ==
  SafeFile(NewFile([NoLocals EXCEPT
                      !.file = [type |-> MimePng, bytes |-> "O"],
                      !.base64DataUrl = ReadAsDataURL([type |-> MimePng, bytes |-> "O"], TRUE),
                      !.processedImageBase64 = EnhancedData],
                   0,
                   Obj([summary |-> SummaryText, findings |-> Arr(<<F1>>),
                        disclaimer |-> DisclaimerText])))
PendingFile == [ViewFile(TRUE, <<F1>>) EXCEPT !.analysisResult = Undefined]
NoImageFile == [ViewFile(FALSE, <<F1>>) EXCEPT !.previewUrl = Undefined]
ViewFiles ==
  {ViewFile(e, fs) : e \in BOOLEAN, fs \in FindingsLists}
    \cup {StrippedFile, PendingFile, NoImageFile}

\* the card of one analysed record, local mode, nothing in flight
InitView ==
  /\ isUploading = FALSE
  /\ processingStatus = ""
  /\ files \in {<<f>> : f \in ViewFiles}
  /\ isFirebaseConnected = FALSE
  /\ apiKey = TRUE
  /\ reports = <<>>
  /\ now = 0
  /\ pc = [p \in Slots |-> "idle"]
  /\ loc = [p \in Slots |-> NoLocals]
  /\ calls = [p \in Slots |-> NoCalls]
  /\ viewMode = "combined"
  /\ hoveredIndex = Null
  /\ pointer = NoEvent
  /\ display \in DisplaySizes
  /\ exportJob = Null
  /\ exported = Null
  /\ isAnalyzing = TRUE
  /\ aiInsight = Null
  /\ insightCall = Pending(Undefined)

NextView ==
  \/ \E mode \in {"box", "heatmap", "combined"} : SetViewMode(mode)
  \/ \E on \in {"box", "legend"}, i \in 0..(MaxFindings - 1) : MouseEnter(on, i)
  \/ \E on \in {"box", "legend"}, i \in 0..(MaxFindings - 1) : MouseLeave(on, i)
  \/ \E d \in DisplaySizes : ResizeViewport(d)
  \/ DownloadAnnotatedImage
  \/ \E hasCtx \in BOOLEAN : ImgOnLoad(hasCtx)

SpecView == InitView /\ [][NextView]_vars

\* ------------------------------------------------------- health insights
\* what ai.models.generateContent can do for the scoring call
InsightResponses ==
  {[kind |-> "throws", text |-> Undefined]}
    \cup {[kind |-> "response", text |-> x] :
            x \in {Undefined, Str(<<>>), Str(<<"{}">>), Str(<<"<html>">>)}}
    \cup {[kind |-> "response", text |-> JSONStringify(ScoredInsight(n, u))] :
            n \in {0, 35, 72, 100}, u \in {"Low", "Moderate", "High", "Emergency"}}

\* generateHealthInsights (geminiService.ts:16-73)
generateHealthInsights(key, r) ==
  IF ~Truthy(getGenAIClient(key))
    THEN Return(Str(<<"API Key missing. Cannot generate insights.">>))
    ELSE IF r.kind = "throws"
      THEN Return(JSONStringify(ZeroScoreInsight))
      ELSE Return(Or(r.text, Str(<<"{}">>)))

\* refreshAIInsights up to the await (App.tsx:60-63), from the Refresh
\* Analysis button, which is disabled while isAnalyzing (App.tsx:264-265)
RefreshAIInsights ==
  /\ ~isAnalyzing
  /\ isAnalyzing' = TRUE
  /\ insightCall' = Pending(Undefined)
  /\ UNCHANGED aiInsight
  /\ UNCHANGED <<isUploading, processingStatus, files, isFirebaseConnected,
                 apiKey, reports, now, pc, loc, calls, viewVars>>

\* generateHealthInsights settles and refreshAIInsights runs to its end
\* (App.tsx:63-70)
GenerateHealthInsightsSettles(r) ==
  /\ insightCall.st = "pending"
  /\ LET out == generateHealthInsights(apiKey, r)
         parsed == IF out.thrown THEN Throw ELSE JSONParse(out.value)
     IN /\ insightCall' = [insightCall EXCEPT
                             !.st = IF out.thrown THEN "rejected" ELSE "resolved",
                             !.ext = IF apiKey THEN r ELSE Undefined,
                             !.ret = out.value]
        /\ aiInsight' = IF parsed.thrown THEN aiInsight ELSE parsed.value
  /\ isAnalyzing' = FALSE
  /\ UNCHANGED <<isUploading, processingStatus, files, isFirebaseConnected,
                 apiKey, reports, now, pc, loc, calls, viewVars>>

NextInsight ==
  \/ RefreshAIInsights
  \/ \E r \in InsightResponses : GenerateHealthInsightsSettles(r)

SpecInsight == Init /\ [][NextInsight]_vars

\* ------------------------------------------------------------ vocabulary
\* the bytes of the picked file, as base64
OriginalBytes(p) == Str(<<loc[p].file.bytes>>)
Settled(c) == c.st \in {"resolved", "rejected"}
Finished(p) == pc[p] \in {"done", "failed", "crashed"}
\* the type of the picked file begins with the six characters image/
IsImage(p) ==
  LET ty == loc[p].file.type IN
  Len(ty) >= 6 /\ \A i \in 1..6 : ty[i] = <<"i", "m", "a", "g", "e", "/">>[i]
RecordBuilt(p) == loc[p].newFile # Undefined
\* the record of slot p has reached its destination
Delivered(p) ==
  IF isFirebaseConnected
    THEN calls[p].persist.st # "none" /\ calls[p].persist.arg = loc[p].newFile
    ELSE files # <<>> /\ Head(files) = loc[p].newFile
HasString(o, k) == o.t = "object" /\ k \in DOMAIN o.f /\ o.f[k].t = "string"
\* what the upload control and the list show
UIObs == <<isUploading, processingStatus, files>>

\* ------------------------------------------------------------------ claims
\* C1: once no upload callback is left to run (every pipeline that was started
\* has ended, whichever step failed, a failed file read included),
\* isUploading is false.
C1_TerminatedNotUploading ==
  (\A p \in Slots : pc[p] \notin Running) => ~isUploading

\* C2: processMedicalImage never throws to handleFileUpload; when it returned
\* no result (or its external call failed) analyzeMedicalDocument was invoked
\* with the original bytes and the record has no processedUrl; when it
\* returned bytes, analyzeMedicalDocument was invoked with exactly those bytes
\* and the record's processedUrl is the data URL of those bytes.
C2_EnhancementFallback ==
  \A p \in Slots :
    Settled(calls[p].enhance) =>
      LET e == calls[p].enhance IN
      /\ e.st = "resolved"
      /\ calls[p].analyze.st # "none"
      /\ (e.ext # Undefined /\ e.ext.kind = "throws") => e.ret = Null
      /\ IF e.ret = Null \/ ~Truthy(e.ret)
           THEN /\ calls[p].analyze.arg = OriginalBytes(p)
                /\ RecordBuilt(p) => loc[p].newFile.processedUrl = Undefined
           ELSE /\ calls[p].analyze.arg = e.ret
                /\ RecordBuilt(p) =>
                     loc[p].newFile.processedUrl =
                       Str(<<"data:image/png;base64", ",">> \o e.ret.v)

C2_Witness ==
  \E p \in Slots :
    /\ calls[p].enhance.st = "resolved"
    /\ calls[p].enhance.ext # Undefined
    /\ calls[p].enhance.ext.kind = "throws"
    /\ RecordBuilt(p)
    /\ Delivered(p)

\* C3: for a file whose type does not start with 'image/',
\* processMedicalImage is never invoked, analyzeMedicalDocument runs (once the
\* file is read) against the original bytes, and the record has no
\* processedUrl.
C3_NonImageSkipsEnhancement ==
  \A p \in Slots :
    (pc[p] # "idle" /\ ~IsImage(p)) =>
      /\ calls[p].enhance.st = "none"
      /\ calls[p].read.st = "resolved" =>
           /\ calls[p].analyze.st # "none"
           /\ calls[p].analyze.arg = OriginalBytes(p)
      /\ RecordBuilt(p) => loc[p].newFile.processedUrl = Undefined

C3_Witness ==
  \E p \in Slots :
    /\ loc[p].file.type = MimePdf
    /\ pc[p] = "done"
    /\ RecordBuilt(p)
    /\ Delivered(p)

\* the findings field of a parsed response, undefined when the response is
\* not an object or has no such field
ResponseFindings(v) ==
  IF v.t = "object" /\ "findings" \in DOMAIN v.f THEN v.f.findings ELSE Undefined
\* the external analysis call answered with text that parses
Parseable(c) ==
  /\ c.ext # Undefined
  /\ c.ext.kind = "response"
  /\ Truthy(c.ext.text)
  /\ ~JSONParse(c.ext.text).thrown

\* C4: for every parseable response of the analysis call,
\* analyzeMedicalDocument does not throw; its result's findings is the
\* response's findings array unchanged when that is an array, and the empty
\* array when it is null, missing or anything else (the response being null
\* or not an object included).
C4_FindingsCoerced ==
  \A p \in Slots :
    (Settled(calls[p].analyze) /\ Parseable(calls[p].analyze)) =>
      LET a == calls[p].analyze
          fnd == ResponseFindings(JSONParse(a.ext.text).value)
      IN /\ a.st = "resolved"
         /\ a.ret.t = "object"
         /\ "findings" \in DOMAIN a.ret.f
         /\ a.ret.f.findings = (IF fnd.t = "array" THEN fnd ELSE Arr(<<>>))

C4_Witness ==
  \E p \in Slots :
    /\ Settled(calls[p].analyze)
    /\ Parseable(calls[p].analyze)
    /\ ResponseFindings(JSONParse(calls[p].analyze.ext.text).value) = Null
    /\ calls[p].analyze.ret.f.findings = Arr(<<>>)

\* the external analysis call threw, or answered with text that does not parse
AnalysisBroke(c) ==
  /\ c.ext # Undefined
  /\ \/ c.ext.kind = "throws"
     \/ c.ext.kind = "response" /\ Truthy(c.ext.text) /\ JSONParse(c.ext.text).thrown

\* C5: when the external analysis call throws or its text is unparseable,
\* analyzeMedicalDocument returns the fixed fallback report, the record is
\* built with that report and delivered (addPatientReport when connected, the
\* local list otherwise), and when the callback has ended isUploading is false.
C5_AnalysisFallbackDelivered ==
  \A p \in Slots :
    (Settled(calls[p].analyze) /\ AnalysisBroke(calls[p].analyze)) =>
      /\ calls[p].analyze.st = "resolved"
      /\ calls[p].analyze.ret =
           Obj([summary |-> Str(<<"Could not process image.">>),
                findings |-> Arr(<<>>),
                disclaimer |-> Str(<<"Error occurred during analysis.">>)])
      /\ RecordBuilt(p)
      /\ loc[p].newFile.analysisResult = calls[p].analyze.ret
      /\ Delivered(p)
      /\ (Finished(p) /\ \A q \in Slots : pc[q] \notin Running) => ~isUploading

C5_Witness ==
  \E p \in Slots :
    /\ calls[p].analyze.st = "resolved"
    /\ calls[p].analyze.ext # Undefined
    /\ calls[p].analyze.ext.kind = "throws"
    /\ pc[p] = "done"
    /\ Delivered(p)
    /\ ~isUploading

\* C6: every result analyzeMedicalDocument returns carries a summary string
\* and a disclaimer string.
C6_SummaryAndDisclaimer ==
  \A p \in Slots :
    calls[p].analyze.st = "resolved" =>
      /\ HasString(calls[p].analyze.ret, "summary")
      /\ HasString(calls[p].analyze.ret, "disclaimer")

\* a step of slot p's callback in which the file read fails
ReadFails(p) == pc[p] = "reading" /\ calls[p].read.st' = "rejected"

\* C7: when reading the file fails the pipeline of that upload halts and
\* leaves no partial record: no service call was issued, no record was built,
\* and the failing step leaves the files list and the store as they were.
C7_ReadFailureHalts ==
  /\ [](\A p \in Slots :
          calls[p].read.st = "rejected" =>
            /\ calls[p].enhance.st = "none"
            /\ calls[p].analyze.st = "none"
            /\ calls[p].persist.st = "none"
            /\ ~RecordBuilt(p)
            /\ pc[p] \notin Running)
  /\ [][\A p \in Slots : ReadFails(p) => (files' = files /\ reports' = reports)]_vars

C7_Witness ==
  \E p \in Slots : calls[p].read.st = "rejected" /\ pc[p] = "crashed"

\* what AddPatientReportSettles leaves on the screen when updateDoc resolves:
\* the finally block has run and handleFileUpload has not touched files
UIAfterSavedUpload == <<FALSE, "", files>>

\* C8: when addPatientReport rejects, what the UI shows once the pipeline has
\* ended differs from what it shows after the same upload was saved.
C8_PersistFailureObservable ==
  [][\A p \in Slots :
       (pc[p] = "saving" /\ calls[p].persist.st' = "rejected") =>
         UIObs' # UIAfterSavedUpload]_vars

\* position of a status label in the order of the pipeline
Rank(label) ==
  CASE label = "Uploading..." -> 1
    [] label = "Removing noise & cropping..." -> 2
    [] label = "Detecting anomalies..." -> 3
    [] label = "Saving to database..." -> 4
    [] label = "" -> 5
    [] OTHER -> 0

\* the label every stage of slot p is in shows
StageLabelSet(p) ==
  /\ pc[p] = "reading" => processingStatus = "Uploading..."
  /\ pc[p] = "enhancing" =>
       processingStatus = "Removing noise & cropping..." /\ IsImage(p)
  /\ pc[p] = "analyzing" => processingStatus = "Detecting anomalies..."
  /\ pc[p] = "saving" =>
       processingStatus = "Saving to database..." /\ isFirebaseConnected

\* C9: with uploads started through the upload control, processingStatus
\* only moves forward in the order Uploading, Removing noise (image types
\* only), Detecting anomalies, Saving (connected only), empty, and from empty
\* only to Uploading; every stage is in progress under its own label; and
\* isUploading is true exactly while the label is non-empty.
C9_StatusForwardOnly ==
  /\ [](/\ isUploading <=> processingStatus # ""
        /\ Rank(processingStatus) # 0
        /\ \A p \in Slots : StageLabelSet(p)
        /\ processingStatus = "Removing noise & cropping..." =>
             \E p \in Slots : pc[p] = "enhancing" /\ IsImage(p)
        /\ processingStatus = "Saving to database..." => isFirebaseConnected)
  /\ [][processingStatus' # processingStatus =>
          IF processingStatus = ""
            THEN processingStatus' = "Uploading..."
            ELSE Rank(processingStatus') > Rank(processingStatus)]_vars

C9_Witness ==
  \E p \in Slots :
    /\ pc[p] = "saving"
    /\ IsImage(p)
    /\ processingStatus = "Saving to database..."
    /\ isUploading

\* C10: within one upload the stages are strictly sequential: at most one
\* call is pending, enhancement and analysis are issued only after the read
\* resolved, analysis only after enhancement (when invoked) resolved, and the
\* record is built, prepended or handed to addPatientReport only after the
\* analysis resolved.
C10_StagesSequential ==
  /\ [](\A p \in Slots :
          /\ Cardinality({s \in Stages : calls[p][s].st = "pending"}) <= 1
          /\ calls[p].enhance.st # "none" => calls[p].read.st = "resolved"
          /\ calls[p].analyze.st # "none" =>
               /\ calls[p].read.st = "resolved"
               /\ calls[p].enhance.st \in {"none", "resolved"}
          /\ (RecordBuilt(p) \/ calls[p].persist.st # "none") =>
               calls[p].analyze.st = "resolved")
  /\ [][(files' # files /\ ~isFirebaseConnected) =>
          \E p \in Slots :
            /\ calls[p].analyze.st = "pending"
            /\ calls[p].analyze.st' = "resolved"
            /\ files' = <<loc[p].newFile'>> \o files]_vars

C10_Witness ==
  \E p \in Slots :
    /\ calls[p].read.st = "resolved"
    /\ calls[p].enhance.st = "resolved"
    /\ calls[p].analyze.st = "resolved"
    /\ calls[p].persist.st = "pending"

\* ------------------------------------------------- delivery and overlap
\* how often r occurs in the list
Count(list, r) == Cardinality({i \in 1..Len(list) : list[i] = r})
\* slot p's callback is between handleFileUpload and its finally block
InFlight(p) == pc[p] \in Running
\* this step is the one in which slot p's callback builds its record and, in
\* local mode, ends
AnalysisStep(p) == pc[p] = "analyzing" /\ pc'[p] # "analyzing"
\* this step is the one in which addPatientReport settles for slot p
PersistStep(p) == pc[p] = "saving" /\ pc'[p] # "saving"
\* this step is a new call of handleFileUpload on slot p
StartStep(p) == pc[p] \notin Running /\ pc'[p] = "reading"

\* C11: a built record goes to exactly one destination, fixed by
\* isFirebaseConnected: connected, it is handed to addPatientReport and the
\* callback leaves the local list alone; not connected, it is prepended to
\* files and addPatientReport is not called. A rejected write changes neither
\* the local list nor the stored one, and the call is not issued again.
C11_OneDestination ==
  /\ [](\A p \in Slots : RecordBuilt(p) =>
          IF isFirebaseConnected
            THEN /\ calls[p].persist.st # "none"
                 /\ calls[p].persist.arg = loc[p].newFile
            ELSE /\ calls[p].persist.st = "none"
                 /\ Count(files, loc[p].newFile) >= 1)
  /\ [][\A p \in Slots :
          /\ (AnalysisStep(p) /\ isFirebaseConnected) => files' = files
          /\ (AnalysisStep(p) /\ ~isFirebaseConnected) =>
               /\ reports' = reports
               /\ pc'[p] = "done" => Len(files') = Len(files) + 1
          /\ PersistStep(p) => files' = files
          /\ (PersistStep(p) /\ calls[p].persist.st' = "rejected") =>
               /\ reports' = reports
               /\ pc'[p] = "failed"
          /\ (Settled(calls[p].persist) /\ ~StartStep(p)) =>
               calls[p].persist' = calls[p].persist]_vars

C11_Witness ==
  \E p \in Slots :
    /\ isFirebaseConnected
    /\ RecordBuilt(p)
    /\ calls[p].persist.st = "rejected"
    /\ files = <<>>
    /\ reports = <<>>

\* C12: while two uploads overlap, isUploading stays true and the label
\* stays non-empty as long as either of them is still in flight.
C12_BusyUntilAllTerminated ==
  \A p \in Slots : InFlight(p) => (isUploading /\ processingStatus # "")

\* C13: in local mode no append is lost: a completing upload lengthens files
\* by exactly its own record, no step removes or replaces a record, and every
\* completed upload's record is in files as often as uploads completed with it.
C13_NoLostAppend ==
  /\ [](~isFirebaseConnected =>
          \A p \in Slots : pc[p] = "done" =>
            Count(files, loc[p].newFile) >=
              Cardinality({q \in Slots : pc[q] = "done" /\ loc[q].newFile = loc[p].newFile}))
  /\ [][~isFirebaseConnected =>
          /\ \A i \in 1..Len(files) : Count(files', files[i]) >= Count(files, files[i])
          /\ \A p \in Slots : (AnalysisStep(p) /\ pc'[p] = "done") =>
               /\ Len(files') = Len(files) + 1
               /\ Count(files', loc'[p].newFile) = Count(files, loc'[p].newFile) + 1]_vars

C13_Witness ==
  /\ ~isFirebaseConnected
  /\ pc[1] = "done" /\ pc[2] = "done"
  /\ loc[1].newFile # loc[2].newFile
  /\ Len(files) = 2
  /\ Count(files, loc[1].newFile) = 1
  /\ Count(files, loc[2].newFile) = 1

\* C14: through the file input at most one upload is in flight: while
\* isUploading is true the input is disabled and no upload starts, and
\* isUploading is true for as long as an upload is in flight.
C14_OneInFlight ==
  /\ [](/\ Cardinality({p \in Slots : InFlight(p)}) <= 1
        /\ \A p \in Slots : InFlight(p) => isUploading)
  /\ [][isUploading => \A p \in Slots : ~StartStep(p)]_vars

C14_Witness ==
  \E p \in Slots : pc[p] = "saving" /\ isUploading /\ processingStatus = "Saving to database..."

\* C15 as stated: in both modes a record whose upload completes is placed
\* after every record that completed before it.
C15_CompletedFirstComesFirst ==
  [][\A p \in Slots :
       /\ (AnalysisStep(p) /\ pc'[p] = "done" /\ ~isFirebaseConnected) =>
            files' = Append(files, loc'[p].newFile)
       /\ (PersistStep(p) /\ pc'[p] = "done") =>
            reports' \in {reports, Append(reports, SafeFile(loc[p].newFile))}]_vars

\* C15 amended: the order of the list is the order of completion, not of
\* issuance, in opposite directions: in connected mode a completing record is
\* stored after those stored before it and files takes the stored order; in
\* local mode a completing record is placed before those completed before it.
C15_OrderByCompletion ==
  [][/\ \A p \in Slots :
          /\ (AnalysisStep(p) /\ pc'[p] = "done" /\ ~isFirebaseConnected) =>
               (Head(files') = loc'[p].newFile /\ Tail(files') = files)
          /\ (PersistStep(p) /\ pc'[p] = "done") =>
               reports' \in {reports, Append(reports, SafeFile(loc[p].newFile))}
     /\ (isFirebaseConnected /\ files' # files) => files' = reports]_vars

C15_Witness ==
  /\ isFirebaseConnected
  /\ pc[1] = "done" /\ pc[2] = "done"
  /\ files = <<SafeFile(loc[2].newFile), SafeFile(loc[1].newFile)>>
  /\ files[1] # files[2]

\* ------------------------------------------------- annotator and export
\* the finding carries a bounding box
HasBox(f) == f.t = "object" /\ "box_2d" \in DOMAIN f.f /\ f.f.box_2d.t = "object"
\* positions (from 1) in the report of the findings that carry a box
BoxedAt(fs) == {j \in 1..Len(fs) : HasBox(fs[j])}
\* position in the report of the k-th finding that carries a box
NthBoxed(fs, k) ==
  CHOOSE j \in BoxedAt(fs) : Cardinality({m \in BoxedAt(fs) : m <= j}) = k
\* the findings of the record on the first card, as the analysis returned them
ReportFindings == Or(OptProp(files[1].analysisResult, "findings"), Arr(<<>>)).v
\* the annotator of the first card is on screen
Annotating == files # <<>> /\ AnnotatorMounted(files[1])
\* an overlay element covers exactly the box of the finding
Covers(el, f) ==
  LET b == f.f.box_2d.f IN
  /\ el.top = b.ymin.v * 100 /\ el.left = b.xmin.v * 100
  /\ el.height = (b.ymax.v - b.ymin.v) * 100
  /\ el.width = (b.xmax.v - b.xmin.v) * 100
BoxesDrawn == BoxLayer(AnnotatorProps(files[1]).findings, viewMode, hoveredIndex)
PatchesDrawn == HeatmapLayer(AnnotatorProps(files[1]).findings, viewMode)
\* the findings hovered, raised and showing their popup (indices from 0)
HoveredSet == IF hoveredIndex = Null THEN {} ELSE {hoveredIndex.v}
RaisedSet == {BoxesDrawn[k].key : k \in {m \in 1..Len(BoxesDrawn) : BoxesDrawn[m].zIndex = 30}}
PopupSet == {BoxesDrawn[k].key : k \in {m \in 1..Len(BoxesDrawn) : BoxesDrawn[m].tooltip # Null}}
\* the strokeRect calls of the finished export, in drawing order
Strokes == SelectSeq(exported.ops, LAMBDA o : o.op = "strokeRect")

\* C16: the view mode starts as 'combined' and is always one of the three
\* modes; the box layer holds one outline per finding with a box, in report
\* order and over its box, in modes box and combined and nothing in heatmap;
\* the heatmap layer holds one patch per finding with a box in modes heatmap
\* and combined and nothing in box; findings without a box are in neither
\* layer and every finding stays in the report and in the textual list.
C16_ViewModes ==
  /\ viewMode = "combined"
  /\ [](/\ viewMode \in {"box", "heatmap", "combined"}
        /\ Annotating =>
             LET fs == ReportFindings
                 n == Cardinality(BoxedAt(fs))
                 list == DetailedAnomalies(files[1])
             IN /\ Len(BoxesDrawn) = IF viewMode \in {"box", "combined"} THEN n ELSE 0
                /\ Len(PatchesDrawn) = IF viewMode \in {"heatmap", "combined"} THEN n ELSE 0
                /\ \A k \in 1..Len(BoxesDrawn) : Covers(BoxesDrawn[k], fs[NthBoxed(fs, k)])
                /\ \A k \in 1..Len(PatchesDrawn) : Covers(PatchesDrawn[k], fs[NthBoxed(fs, k)])
                /\ ~list.thrown
                /\ Len(list.value) = Len(fs)
                /\ \A j \in 1..Len(fs) : list.value[j].label = fs[j].f.label)

C16_Witness ==
  /\ Annotating
  /\ viewMode = "heatmap"
  /\ ReportFindings = <<F1, F2, F3>>
  /\ Len(PatchesDrawn) = 2
  /\ Len(BoxesDrawn) = 0

\* C17: the number on the badge and in the legend of a finding with a box is
\* the finding's position (from 1) in the report, the number it has in the
\* Detailed Anomalies list and in the label of the export.
C17_BadgeIsReportIndex ==
  (Annotating /\ viewMode \in {"box", "combined"}) =>
    LET fs == ReportFindings
        list == DetailedAnomalies(files[1]).value
        legend == Legend(AnnotatorProps(files[1]).findings)
    IN \A k \in 1..Len(BoxesDrawn) :
         LET j == NthBoxed(fs, k) IN
         /\ BoxesDrawn[k].badge = list[j].number
         /\ legend[k].number = list[j].number
         /\ ExportLabel(j - 1, fs[j]).v[1] = ToString(BoxesDrawn[k].badge)

\* the band each confidence text of the findings belongs to
ExpectedBand(confidence) ==
  CASE confidence = Undefined -> GradientLow
    [] confidence = Str(<<"H", "i", "g", "h">>) -> GradientHigh
    [] confidence = Str(<<"H", "I", "G", "H", " ", "r", "i", "s", "k">>) -> GradientHigh
    [] confidence = Str(<<"M", "e", "d", "i", "u", "m", "-", "H", "i", "g", "h">>) -> GradientHigh
    [] confidence = Str(<<"m", "e", "d", "i", "u", "m">>) -> GradientMedium
    [] confidence = Str(<<>>) -> GradientLow
    [] confidence = Str(<<"L", "o", "w">>) -> GradientLow
    [] confidence = Str(<<"u", "n", "e", "x", "p", "e", "c", "t", "e", "d">>) -> GradientLow

\* C18: getHeatmapStyle puts every confidence into one of three bands: high
\* when the text contains 'high' in any case ('High', 'HIGH risk', also
\* 'Medium-High'), medium when it otherwise contains 'medium', low for
\* everything else ('', 'Low', 'unexpected', a missing confidence); the
\* patches of the heatmap layer carry the band of their finding.
C18_ThreeBands ==
  files # <<>> =>
    /\ \A j \in 1..Len(ReportFindings) :
         LET confidence == OptProp(ReportFindings[j], "confidence") IN
         getHeatmapStyle(confidence) = ExpectedBand(confidence)
    /\ Annotating => \A k \in 1..Len(PatchesDrawn) :
         PatchesDrawn[k].background =
           ExpectedBand(OptProp(ReportFindings[NthBoxed(ReportFindings, k)], "confidence"))

C18_Witness ==
  /\ Annotating
  /\ viewMode = "heatmap"
  /\ ReportFindings = <<F4, F5, F6>>
  /\ [k \in 1..3 |-> PatchesDrawn[k].background] = <<GradientHigh, GradientLow, GradientLow>>

\* C19 as stated: at most one finding is hovered, right after a pointer-enter
\* on finding i it is i, and exactly the hovered finding is raised above its
\* siblings and shows the popup with its label and confidence.
C19_HoveredRaisedWithPopup ==
  Annotating =>
    /\ Cardinality(HoveredSet) <= 1
    /\ pointer.type = "enter" => hoveredIndex = Num(pointer.idx)
    /\ RaisedSet = HoveredSet
    /\ PopupSet = HoveredSet

\* C19 amended: at most one finding is hovered and right after a
\* pointer-enter on finding i it is i; while the boxes are drawn (modes box
\* and combined) exactly the hovered finding is raised and shows the popup
\* with its label and confidence; in mode heatmap nothing is raised and no
\* popup is shown, whatever is hovered.
C19_HoveredRaisedWhenBoxesDrawn ==
  Annotating =>
    /\ Cardinality(HoveredSet) <= 1
    /\ pointer.type = "enter" => hoveredIndex = Num(pointer.idx)
    /\ RaisedSet = (IF viewMode \in {"box", "combined"} THEN HoveredSet ELSE {})
    /\ PopupSet = RaisedSet
    /\ \A k \in 1..Len(BoxesDrawn) : BoxesDrawn[k].tooltip # Null =>
         LET f == ReportFindings[NthBoxed(ReportFindings, k)] IN
         /\ BoxesDrawn[k].tooltip.f.label = f.f.label
         /\ BoxesDrawn[k].tooltip.f.confidence = f.f.confidence

C19_Witness ==
  /\ Annotating
  /\ viewMode = "combined"
  /\ pointer = [type |-> "enter", on |-> "legend", idx |-> 1]
  /\ hoveredIndex = Num(1)
  /\ Len(BoxesDrawn) = 3
  /\ RaisedSet = {1}
  /\ PopupSet = {1}

\* C20: the export draws one rectangle per finding with a box, in report
\* order, computed from the box and the intrinsic size W x H of the loaded
\* image: x = xmin*W, y = ymin*H, w = (xmax-xmin)*W, h = (ymax-ymin)*H,
\* whatever the displayed size; the box {0.1, 0.1, 0.3, 0.4} on a 1000 x 800
\* image gives top-left (100, 80) and size (300, 160). Lengths are in
\* thousandths of a pixel.
C20_ExportRectangles ==
  exported # Null =>
    LET fs == ReportFindings
        W == exported.width
        H == exported.height
    IN /\ [width |-> W, height |-> H] =
            ImageSize(Or(files[1].processedUrl, files[1].previewUrl))
       /\ Len(Strokes) = Cardinality(BoxedAt(fs))
       /\ \A k \in 1..Len(Strokes) :
            LET b == fs[NthBoxed(fs, k)].f.box_2d.f IN
            /\ Strokes[k].x = b.xmin.v * W
            /\ Strokes[k].y = b.ymin.v * H
            /\ Strokes[k].w = (b.xmax.v - b.xmin.v) * W
            /\ Strokes[k].h = (b.ymax.v - b.ymin.v) * H
            /\ (W = 1000 /\ H = 800 /\ fs[NthBoxed(fs, k)] = F1) =>
                 /\ Strokes[k].x = 100 * 1000 /\ Strokes[k].y = 80 * 1000
                 /\ Strokes[k].w = 300 * 1000 /\ Strokes[k].h = 160 * 1000

C20_Witness ==
  /\ exported # Null
  /\ exported.width = 1000 /\ exported.height = 800
  /\ display = [width |-> 300, height |-> 240]
  /\ ReportFindings = <<F2, F1>>
  /\ Len(Strokes) = 1
  /\ Strokes[1].x = 100000 /\ Strokes[1].y = 80000
  /\ Strokes[1].w = 300000 /\ Strokes[1].h = 160000

\* ------------------------------------------------------ records and ids
\* the App state holds the record r: it is in the files list
AppHolds(r) == \E i \in 1..Len(files) : files[i] = r
\* the record carries an analysis with a findings array and the data URL of
\* the picked file as its preview
Complete(r, file) ==
  /\ r.analysisResult.t = "object"
  /\ "findings" \in DOMAIN r.analysisResult.f
  /\ r.analysisResult.f.findings.t = "array"
  /\ r.previewUrl = ReadAsDataURL(file, TRUE)
\* the card of the record shows 'Pending' (UploadReport.tsx:137-139)
ShowsPending(r) == ~Truthy(r.analysisResult)
\* the base64 bytes of the image the annotations of record r are drawn on
AnnotatedBytes(r) == SplitComma1(Or(r.processedUrl, r.previewUrl).v)

\* C25: after addPatientReport was rejected the record built by the upload,
\* with its analysisResult, is still held by the App, so that the write can
\* be repeated without a new enhancement or analysis.
C25_RecordKeptAfterPersistFailure ==
  \A p \in Slots :
    (pc[p] = "failed" /\ calls[p].persist.st = "rejected") =>
      AppHolds(calls[p].persist.arg)

\* C26: a record that an upload prepends to files or hands to
\* addPatientReport is complete: its analysisResult is an object whose
\* findings is an array and its previewUrl is the data URL read from the
\* picked file; no record in files shows 'Pending'.
C26_RecordsComplete ==
  /\ \A p \in Slots :
       /\ RecordBuilt(p) => Complete(loc[p].newFile, loc[p].file)
       /\ calls[p].persist.st # "none" => Complete(calls[p].persist.arg, loc[p].file)
  /\ ~isFirebaseConnected => \A i \in 1..Len(files) :
       \E file \in PickedFiles : Complete(files[i], file)
  /\ \A i \in 1..Len(files) : ~ShowsPending(files[i])

C26_Witness ==
  /\ ~isFirebaseConnected
  /\ pc[1] = "done"
  /\ files = <<loc[1].newFile>>
  /\ files[1].analysisResult.f.findings = Arr(<<>>)
  /\ calls[1].analyze.ext = [kind |-> "response", text |-> Str(<<"{s,f:'x',d}">>)]

\* C29: the image the annotations of a built record are drawn on,
\* processedUrl || previewUrl, holds the bytes that were passed to
\* analyzeMedicalDocument: processedUrl is set exactly when the enhanced
\* bytes were analysed and absent exactly when the original bytes were.
C29_AnnotatedIsAnalysed ==
  \A p \in Slots : RecordBuilt(p) =>
    LET r == loc[p].newFile
        analysed == calls[p].analyze.arg
    IN /\ AnnotatedBytes(r) = analysed
       /\ Truthy(r.processedUrl) <=>
            (calls[p].enhance.st = "resolved" /\ analysed = calls[p].enhance.ret)
       /\ r.processedUrl = Undefined <=> analysed = OriginalBytes(p)

C29_Witness ==
  \E p \in Slots :
    /\ pc[p] = "done"
    /\ calls[p].analyze.arg = EnhancedData
    /\ loc[p].newFile.processedUrl = Str(<<"data:image/png;base64", ",", "e">>)
    /\ AnnotatedBytes(loc[p].newFile) = EnhancedData

\* C30: the records in files have pairwise distinct ids, also when two
\* uploads read the same value of Date.now().
C30_DistinctIds ==
  \A i, j \in 1..Len(files) : i # j => files[i].id # files[j].id

\* ------------------------------------------------ hover, boxes, export
\* the image downloadAnnotatedImage has to take for the record
ExportSource(file) == IF Truthy(file.processedUrl) THEN file.processedUrl ELSE file.previewUrl
\* the record gives downloadAnnotatedImage nothing to draw on or nothing to draw
NothingToExport(file) == ~Truthy(ExportSource(file)) \/ ~Truthy(file.analysisResult)

\* C21: both renderers draw a box clamped to [0,1], and with zero extent
\* where xmax <= xmin or ymax <= ymin after clamping: the overlay elements of
\* the annotator and the rectangles of the export.
C21_DegenerateBoxesClamped ==
  LET Clamp(v) == IF v < 0 THEN 0 ELSE IF v > 1000 THEN 1000 ELSE v
      Extent(lo, hi) == IF Clamp(hi) < Clamp(lo) THEN 0 ELSE Clamp(hi) - Clamp(lo)
      Region(k) ==
        LET b == ReportFindings[NthBoxed(ReportFindings, k)].f.box_2d.f
        IN [x |-> Clamp(b.xmin.v), y |-> Clamp(b.ymin.v),
            w |-> Extent(b.xmin.v, b.xmax.v), h |-> Extent(b.ymin.v, b.ymax.v)]
      Clamped(el, k) ==
        /\ el.left = Region(k).x * 100 /\ el.top = Region(k).y * 100
        /\ el.width = Region(k).w * 100 /\ el.height = Region(k).h * 100
  IN /\ Annotating => \A k \in 1..Len(BoxesDrawn) : Clamped(BoxesDrawn[k], k)
     /\ Annotating => \A k \in 1..Len(PatchesDrawn) : Clamped(PatchesDrawn[k], k)
     /\ exported # Null => \A k \in 1..Len(Strokes) :
          /\ Strokes[k].x = Region(k).x * exported.width
          /\ Strokes[k].y = Region(k).y * exported.height
          /\ Strokes[k].w = Region(k).w * exported.width
          /\ Strokes[k].h = Region(k).h * exported.height

\* C24: for a record without a source image (processedUrl and previewUrl
\* both missing or '') or without analysisResult the export loads no image,
\* draws nothing and downloads nothing; otherwise the image it loads is
\* processedUrl when that is present and previewUrl only when it is not, and
\* the canvas has the size of that image.
C24_ExportNoOp ==
  files # <<>> =>
    /\ NothingToExport(files[1]) => (exportJob = Null /\ exported = Null)
    /\ exportJob # Null =>
         (exportJob.src = ExportSource(files[1]) /\ ~NothingToExport(files[1]))
    /\ exported # Null =>
         [width |-> exported.width, height |-> exported.height] =
           ImageSize(ExportSource(files[1]))

C24_Witness ==
  /\ files = <<StrippedFile>>
  /\ files[1].previewUrl = Str(<<>>) /\ files[1].processedUrl = Str(<<>>)
  /\ pointer = [type |-> "click", on |-> "export", idx |-> 0]
  /\ exportJob = Null
  /\ exported = Null

\* C27 as stated: while finding i is the one entered last, a pointer-leave on
\* another finding j leaves hoveredIndex = i.
C27_LeaveOfOtherKeepsHover ==
  [][(pointer.type = "enter" /\ hoveredIndex = Num(pointer.idx)
        /\ pointer'.type = "leave" /\ pointer'.idx # pointer.idx)
       => hoveredIndex' = hoveredIndex]_vars

\* C27 amended: a pointer-leave on any box or legend entry clears the hover,
\* whether or not the finding left is the hovered one: right after a leave
\* hoveredIndex is null, and it stays null until the next pointer-enter.
C27_AnyLeaveClearsHover ==
  /\ [](pointer.type = "leave" => hoveredIndex = Null)
  /\ [][(pointer.type = "enter" /\ pointer'.type = "leave") => hoveredIndex' = Null]_vars

C27_Witness ==
  /\ Annotating
  /\ ReportFindings = <<F4, F5, F6>>
  /\ pointer = [type |-> "leave", on |-> "box", idx |-> 2]
  /\ hoveredIndex = Null
  /\ viewMode = "box"

\* C28: the card of a record whose findings lack a confidence, or have an
\* empty one, renders without an error: the Detailed Anomalies list shows
\* every finding and the heatmap gives those findings the low band.
C28_MissingConfidenceRenders ==
  files # <<>> =>
    /\ ~DetailedAnomalies(files[1]).thrown
    /\ \A j \in 1..Len(ReportFindings) :
         ~Truthy(OptProp(ReportFindings[j], "confidence")) =>
           getHeatmapStyle(OptProp(ReportFindings[j], "confidence")) = GradientLow

\* C22: the record addPatientReport writes never embeds image data above
\* the threshold: when previewUrl or processedUrl of the record passed in is
\* longer than 800000 characters both are written as '', otherwise the
\* record is written unchanged.
C22_NoLargeImageWritten ==
  LET UrlLen(u) == IF Truthy(u) THEN StrLen(u.v) ELSE 0 IN
  \A p \in Slots :
    (isFirebaseConnected /\ calls[p].persist.st = "resolved") =>
      LET file == calls[p].persist.arg
          written == calls[p].persist.ext
      IN IF UrlLen(file.previewUrl) > StripLimit \/ UrlLen(file.processedUrl) > StripLimit
           THEN written.previewUrl = Str(<<>>) /\ written.processedUrl = Str(<<>>)
           ELSE written = file

\* ------------------------------------------------------ health insights
\* the scoring could not be produced: no API key, an error of the external
\* call, or an empty response
NoScoring ==
  \/ ~apiKey
  \/ insightCall.ext.kind = "throws"
  \/ ~Truthy(insightCall.ext.text)

\* C23: generateHealthInsights never throws, and whenever the scoring cannot
\* be produced it returns a string that parses as the zero-score fallback
\* (healthScore 0 and the schema fields), so that refreshAIInsights parses
\* it and shows it.
C23_ZeroScoreFallback ==
  /\ insightCall.st # "rejected"
  /\ (insightCall.st = "resolved" /\ NoScoring) =>
       /\ JSONParse(insightCall.ret) = Return(ZeroScoreInsight)
       /\ aiInsight = ZeroScoreInsight

====
